---- MODULE Spec2Model ----
(***************************************************************************)
(* FoodieDrops: the reservation of drop inventory (savePurchase and the    *)
(* purchase_drop_item procedure), the checkout-session gateway and the     *)
(* Stripe webhook listener, as state machines over the drops and purchases *)
(* tables.                                                                 *)
(*                                                                         *)
(* Money is in cents.  Prices and fees are whole dollars (multiples of     *)
(* 100) and tax rates are whole percents, so every amount the program      *)
(* computes in floating point is an exact integer number of cents here.    *)
(***************************************************************************)
EXTENDS Integers, Sequences, FiniteSets, TLC

VARIABLES
  drop,                     \* the row of table drops
  booking_fee_per_package,  \* app_settings.booking_fee_per_package
  now,                      \* the clock (server time, new Date())
  drops,                    \* App's `drops` state: the client's copy of the drop
  attempts,                 \* handlePurchaseConfirm calls, by client
  purchases,                \* table purchases, a row's id is its index
  sessions,                 \* the provider's checkout sessions, by session id
  gateway,                  \* create-checkout-session requests in service, by slot
  response,                 \* the last answer of create-checkout-session
  webhook,                  \* the last stripe-webhook request and its answer
  detail,                   \* the DropDetail page: its drop prop and its state
  form,                     \* AdminDropForm's formData
  submission                \* the checkout forms: in-flight flag and onConfirm calls

vars == <<drop, booking_fee_per_package, now, drops, attempts, purchases,
          sessions, gateway, response, webhook, detail, form, submission>>

reserveVars == <<drop, booking_fee_per_package, drops, attempts, form, submission>>
payVars == <<sessions, gateway, response, webhook>>

(***************************************************************************)
(* Bounds of the model.                                                    *)
(***************************************************************************)
MaxQty == 2        \* largest total_quantity of the drop
MaxReq == 2        \* largest quantity one attempt asks for
NClients == 2      \* concurrent handlePurchaseConfirm calls
MaxTime == 2       \* the clock stops here
MaxSessions == 2   \* checkout sessions the provider is asked to create
MaxOrders == 2     \* orders placed while the catalog is edited

Clients == 1..NClients
NULL == "null"      \* no error, no drop
NONE == 0           \* a null id or timestamp: ids and the times of orders start at 1
NoDrop == [id |-> NULL]

\* before the first request to an edge function
NoResponse == [status |-> NONE, error |-> NULL, purchaseId |-> NONE,
               sessionId |-> NONE, reused |-> FALSE]
NoRequest == [signature |-> NULL, status |-> NONE, updateError |-> NULL]

\* no DropDetail page is open
NoDetail == [drop |-> NoDrop]

\* the forms that submit a purchase, and their state when they are opened
Forms == {"CheckoutModal", "QuickCheckout", "BulkOrderModal"}
NoSubmission == [isProcessing |-> FALSE, outstanding |-> 0, last |-> NULL,
                 errorMessage |-> NULL]
NoSubmissions == [f \in Forms |-> NoSubmission]

APPROVED == "approved"
PENDING == "pending"
REJECTED == "rejected"

(***************************************************************************)
(* Menus.  A drop has no menu items (flat price) or one item with one      *)
(* modifier group of two priced options.                                   *)
(***************************************************************************)
OptA == [id |-> "a", additionalPrice |-> 100]
OptB == [id |-> "b", additionalPrice |-> 200]
Menu1 ==
  << [id |-> "i1", basePrice |-> 2000,
      modifierGroups |-> << [id |-> "g1", minSelect |-> 0, maxSelect |-> 2,
                             options |-> <<OptA, OptB>>] >>] >>
Menus == {<< >>, Menu1}

RECURSIVE SumSeq(_)
SumSeq(s) == IF s = << >> THEN 0 ELSE Head(s) + SumSeq(Tail(s))

\* handlePublish: price is the sum of the items' base prices, or the flat price
calculatedBasePrice(menu_items) ==
  SumSeq([i \in DOMAIN menu_items |-> menu_items[i].basePrice])

\* the selections state of DropDetail: item id -> group id -> options picked
SelectionStates(menu_items) ==
  IF menu_items = << >> THEN {<< >>} ELSE {<< >>, <<OptB>>}

\* handleConfirmCheckout: the SelectedItem[] sent with the order
finalSelections(menu_items, picked) ==
  [i \in DOMAIN menu_items |->
     [itemId |-> menu_items[i].id,
      basePrice |-> menu_items[i].basePrice,
      selectedModifiers |->
        [g \in DOMAIN menu_items[i].modifierGroups |->
           [groupId |-> menu_items[i].modifierGroups[g].id,
            options |-> picked]]]]

(***************************************************************************)
(* savePurchase, client side: the total it sends as p_total_paid.          *)
(***************************************************************************)
modifiersCost(selectedItems) ==
  SumSeq([i \in DOMAIN selectedItems |->
    SumSeq([g \in DOMAIN selectedItems[i].selectedModifiers |->
      SumSeq([o \in DOMAIN selectedItems[i].selectedModifiers[g].options |->
        selectedItems[i].selectedModifiers[g].options[o].additionalPrice])])])

savePurchaseTotal(d, payload) ==
  d.price * payload.quantity
  + (IF payload.deliveryRequested THEN d.delivery_fee ELSE 0)
  + modifiersCost(payload.selectedItems) * payload.quantity

rpcParams(d, payload) ==
  [p_quantity |-> payload.quantity,
   p_total_paid |-> savePurchaseTotal(d, payload),
   p_delivery_requested |-> payload.deliveryRequested,
   p_selected_items |-> payload.selectedItems]

(***************************************************************************)
(* The pricing of section 4.1, as the server recomputes it at reservation. *)
(***************************************************************************)
\* the surcharge the drop's own menu gives an option id (0 when unknown)
optionPrice(menu_items, itemId, groupId, optId) ==
  LET hits == {<<i, g, o>> \in (1..Len(menu_items)) \X (1..2) \X (1..2) :
                 /\ g \in DOMAIN menu_items[i].modifierGroups
                 /\ o \in DOMAIN menu_items[i].modifierGroups[g].options
                 /\ menu_items[i].id = itemId
                 /\ menu_items[i].modifierGroups[g].id = groupId
                 /\ menu_items[i].modifierGroups[g].options[o].id = optId}
  IN IF hits = {} THEN 0
     ELSE LET h == CHOOSE h \in hits : TRUE
          IN menu_items[h[1]].modifierGroups[h[2]].options[h[3]].additionalPrice

serverUnitPrice(d, selectedItems) ==
  IF d.menu_items = << >> THEN d.price
  ELSE SumSeq([i \in DOMAIN d.menu_items |->
         d.menu_items[i].basePrice
         + SumSeq([k \in DOMAIN selectedItems |->
             IF selectedItems[k].itemId # d.menu_items[i].id THEN 0
             ELSE SumSeq([g \in DOMAIN selectedItems[k].selectedModifiers |->
               SumSeq([o \in DOMAIN selectedItems[k].selectedModifiers[g].options |->
                 optionPrice(d.menu_items, selectedItems[k].itemId,
                             selectedItems[k].selectedModifiers[g].groupId,
                             selectedItems[k].selectedModifiers[g].options[o].id)])])])])

serverPricing(d, fee, p) ==
  LET subtotal == serverUnitPrice(d, p.p_selected_items) * p.p_quantity
      deliveryFee == IF p.p_delivery_requested THEN d.delivery_fee ELSE 0
      bookingFee == fee * p.p_quantity
      taxAmount == ((subtotal + deliveryFee + bookingFee) * d.tax_rate) \div 100
  IN [subtotal |-> subtotal, delivery_fee |-> deliveryFee,
      booking_fee |-> bookingFee, tax_amount |-> taxAmount,
      total |-> subtotal + deliveryFee + bookingFee + taxAmount]

(***************************************************************************)
(* purchase_drop_item: one transaction that prices (section 4.1: a         *)
(* quantity below 1 is InvalidPricingInput), verifies, decrements and      *)
(* inserts.  It answers the error it raised (NULL on success), the drop    *)
(* row and the purchases table it leaves.                                  *)
(***************************************************************************)
newPurchase(d, fee, p) ==
  LET pr == serverPricing(d, fee, p)
  IN [quantity |-> p.p_quantity,
      subtotal |-> pr.subtotal,
      delivery_fee |-> pr.delivery_fee,
      booking_fee |-> pr.booking_fee,
      tax_amount |-> pr.tax_amount,
      total_paid |-> pr.total,
      delivery_requested |-> p.p_delivery_requested,
      selected_items |-> p.p_selected_items,
      payment_status |-> "pending",
      stripe_checkout_session_id |-> NONE,
      stripe_payment_intent_id |-> NONE,
      paid_at |-> NONE]

\* a plausible slip: the stock is decremented without being compared first
purchase_drop_item_unchecked(d, t, fee, rows, p) ==
  IF p.p_quantity < 1
    THEN [error |-> "InvalidPricingInput", drop |-> d, purchases |-> rows]
  ELSE IF d.approval_status # APPROVED
    THEN [error |-> "DropNotApproved", drop |-> d, purchases |-> rows]
  ELSE IF t < d.start_date \/ t > d.end_date
    THEN [error |-> "DropNotLive", drop |-> d, purchases |-> rows]
  ELSE [error |-> NULL,
        drop |-> [d EXCEPT !.quantity_remaining = @ - p.p_quantity],
        purchases |-> Append(rows, newPurchase(d, fee, p))]

\* a plausible slip: the approval and the window are left to the client
purchase_drop_item_trusting(d, t, fee, rows, p) ==
  IF p.p_quantity < 1
    THEN [error |-> "InvalidPricingInput", drop |-> d, purchases |-> rows]
  ELSE IF d.quantity_remaining < p.p_quantity
    THEN [error |-> "InsufficientInventory", drop |-> d, purchases |-> rows]
  ELSE [error |-> NULL,
        drop |-> [d EXCEPT !.quantity_remaining = @ - p.p_quantity],
        purchases |-> Append(rows, newPurchase(d, fee, p))]

\* a plausible slip: the total the client sent is stored as it came
purchase_drop_item_client_total(d, t, fee, rows, p) ==
  IF p.p_quantity < 1
    THEN [error |-> "InvalidPricingInput", drop |-> d, purchases |-> rows]
  ELSE IF d.approval_status # APPROVED
    THEN [error |-> "DropNotApproved", drop |-> d, purchases |-> rows]
  ELSE IF t < d.start_date \/ t > d.end_date
    THEN [error |-> "DropNotLive", drop |-> d, purchases |-> rows]
  ELSE IF d.quantity_remaining < p.p_quantity
    THEN [error |-> "InsufficientInventory", drop |-> d, purchases |-> rows]
  ELSE [error |-> NULL,
        drop |-> [d EXCEPT !.quantity_remaining = @ - p.p_quantity],
        purchases |-> Append(rows, [newPurchase(d, fee, p) EXCEPT
                                      !.total_paid = p.p_total_paid])]

\* a plausible slip: the quantity is not checked before it is priced
purchase_drop_item_any_quantity(d, t, fee, rows, p) ==
  IF d.approval_status # APPROVED
    THEN [error |-> "DropNotApproved", drop |-> d, purchases |-> rows]
  ELSE IF t < d.start_date \/ t > d.end_date
    THEN [error |-> "DropNotLive", drop |-> d, purchases |-> rows]
  ELSE IF d.quantity_remaining < p.p_quantity
    THEN [error |-> "InsufficientInventory", drop |-> d, purchases |-> rows]
  ELSE [error |-> NULL,
        drop |-> [d EXCEPT !.quantity_remaining = @ - p.p_quantity],
        purchases |-> Append(rows, newPurchase(d, fee, p))]

purchase_drop_item(d, t, fee, rows, p) ==
  IF p.p_quantity < 1
    THEN [error |-> "InvalidPricingInput", drop |-> d, purchases |-> rows]
  ELSE IF d.approval_status # APPROVED
    THEN [error |-> "DropNotApproved", drop |-> d, purchases |-> rows]
  ELSE IF t < d.start_date \/ t > d.end_date
    THEN [error |-> "DropNotLive", drop |-> d, purchases |-> rows]
  ELSE IF d.quantity_remaining < p.p_quantity
    THEN [error |-> "InsufficientInventory", drop |-> d, purchases |-> rows]
  ELSE [error |-> NULL,
        drop |-> [d EXCEPT !.quantity_remaining = @ - p.p_quantity],
        purchases |-> Append(rows, newPurchase(d, fee, p))]

(***************************************************************************)
(* The drops table: publication, approval, edits.                          *)
(***************************************************************************)
Prices == {1000, 2000}

\* handlePublish + addDrop: a new drop, all of its stock remaining, pending
newDrop(total, menu_items, flat, tax) ==
  [approval_status |-> PENDING,
   price |-> IF calculatedBasePrice(menu_items) # 0
               THEN calculatedBasePrice(menu_items) ELSE flat,
   tax_rate |-> tax,
   delivery_fee |-> 500,
   total_quantity |-> total,
   quantity_remaining |-> total,
   start_date |-> 1,
   end_date |-> 1,
   menu_items |-> menu_items]

\* a plausible slip: the updates are written as they came
safeUpdatesAll(updates) == updates

\* updateDrop: approval_status is stripped from the updates
safeUpdates(updates) ==
  [f \in DOMAIN updates \ {"approval_status"} |-> updates[f]]

applyUpdates(row, updates) ==
  [f \in DOMAIN row |-> IF f \in DOMAIN updates THEN updates[f] ELSE row[f]]

updateDrop(updates) ==
  /\ drop' = applyUpdates(drop, safeUpdates(updates))
  /\ UNCHANGED <<booking_fee_per_package, now, drops, attempts, purchases, payVars, detail, form, submission>>

UpdateDrop ==
  \E p \in Prices :
    \/ updateDrop([price |-> p])
    \/ updateDrop([price |-> p, approval_status |-> APPROVED])

updateDropApprovalStatus(approvalStatus) ==
  /\ drop' = [drop EXCEPT !.approval_status = approvalStatus]
  /\ UNCHANGED <<booking_fee_per_package, now, drops, attempts, purchases, payVars, detail, form, submission>>

handleApproveDrop == updateDropApprovalStatus(APPROVED)
handleRejectDrop == updateDropApprovalStatus(REJECTED)

\* getApprovedDrops, as fetchDrops stores it in the App's state; of the row, the
\* copy keeps the fields the purchase flow reads
getApprovedDrops ==
  IF drop.approval_status = APPROVED
    THEN [f \in {"approval_status", "price", "delivery_fee", "menu_items"} |-> drop[f]]
    ELSE NoDrop

fetchDrops ==
  /\ drops' = getApprovedDrops
  /\ drops' # drops
  /\ UNCHANGED <<drop, booking_fee_per_package, now, attempts, purchases, payVars, detail, form, submission>>

Tick ==
  /\ now < MaxTime
  /\ now' = now + 1
  /\ UNCHANGED <<drop, booking_fee_per_package, drops, attempts, purchases, payVars, detail, form, submission>>

(***************************************************************************)
(* handlePurchaseConfirm -> savePurchase -> purchase_drop_item.            *)
(***************************************************************************)
Idle == [pc |-> "idle"]

Settled(a) == a.pc \in {"failed", "checkout", "done"}

\* handlePurchaseConfirm up to the rpc call of savePurchase
handlePurchaseConfirm(c) ==
  /\ attempts[c].pc = "idle"
  /\ \E qty \in 1..MaxReq, delivery \in BOOLEAN :
       IF drops = NoDrop
         THEN attempts' = [attempts EXCEPT ![c] =
                [pc |-> "failed", error |-> "Package not found."]]
       ELSE \E picked \in SelectionStates(drops.menu_items) :
         LET payload == [quantity |-> qty, deliveryRequested |-> delivery,
                         selectedItems |-> finalSelections(drops.menu_items, picked)]
         IN IF drops.approval_status # APPROVED
              THEN attempts' = [attempts EXCEPT ![c] =
                     [pc |-> "failed", error |-> "This package is not approved for booking yet."]]
              ELSE attempts' = [attempts EXCEPT ![c] =
                     [pc |-> "rpc", params |-> rpcParams(drops, payload)]]
  /\ UNCHANGED <<drop, booking_fee_per_package, now, drops, purchases, payVars, detail, form, submission>>

\* savePurchase: the rpc runs on the server, in one transaction
savePurchaseRpc(c) ==
  /\ attempts[c].pc = "rpc"
  /\ LET r == purchase_drop_item(drop, now, booking_fee_per_package, purchases,
                                 attempts[c].params)
     IN /\ drop' = r.drop
        /\ purchases' = r.purchases
        /\ attempts' = [attempts EXCEPT ![c] =
             IF r.error # NULL
               THEN [pc |-> "failed", error |-> r.error, params |-> attempts[c].params]
               ELSE [pc |-> "fetch", purchase_id |-> Len(r.purchases),
                     p_total_paid |-> attempts[c].params.p_total_paid]]
  /\ UNCHANGED <<booking_fee_per_package, now, drops, payVars, detail, form, submission>>

\* savePurchase: the rpc call does not reach the database, or its answer is lost
\* before the transaction commits
savePurchaseRpcError(c) ==
  /\ attempts[c].pc = "rpc"
  /\ attempts' = [attempts EXCEPT ![c] =
       [pc |-> "failed", error |-> "PersistenceError"]]
  /\ UNCHANGED <<drop, booking_fee_per_package, now, drops, purchases, payVars, detail, form, submission>>

\* savePurchase: the created row is read back
savePurchaseFetch(c) ==
  /\ attempts[c].pc = "fetch"
  /\ \/ attempts' = [attempts EXCEPT ![c].pc = "checkout"]
     \/ attempts' = [attempts EXCEPT ![c] =
          [pc |-> "failed", error |-> "fetchError",
           purchase_id |-> attempts[c].purchase_id,
           p_total_paid |-> attempts[c].p_total_paid]]
  /\ UNCHANGED <<drop, booking_fee_per_package, now, drops, purchases, payVars, detail, form, submission>>

\* the error is shown (alert, inline message) and the form takes a new submission
retryAfterError(c) ==
  /\ attempts[c].pc = "failed"
  /\ attempts' = [attempts EXCEPT ![c] = Idle]
  /\ UNCHANGED <<drop, booking_fee_per_package, now, drops, purchases, payVars, detail, form, submission>>

(***************************************************************************)
(* The reservation core on its own: one drop, published and then approved, *)
(* edited, fetched and bought by concurrent clients.                       *)
(***************************************************************************)
InitReserve ==
  /\ \E total \in 1..MaxQty, menu_items \in Menus :
       drop = newDrop(total, menu_items, 1000, IF menu_items = << >> THEN 0 ELSE 10)
  /\ booking_fee_per_package = 100
  /\ now = 0
  /\ drops = NoDrop
  /\ attempts = [c \in Clients |-> Idle]
  /\ purchases = << >>
  /\ sessions = << >>
  /\ gateway = [g \in {1, 2} |-> [pc |-> "idle"]]
  /\ response = NoResponse
  /\ webhook = NoRequest
  /\ detail = NoDetail
  /\ form = NoDrop
  /\ submission = NoSubmissions

NextReserve ==
  \/ handleApproveDrop
  \/ handleRejectDrop
  \/ fetchDrops
  \/ Tick
  \/ \E c \in Clients : handlePurchaseConfirm(c)
  \/ \E c \in Clients : savePurchaseRpc(c)
  \/ \E c \in Clients : savePurchaseRpcError(c)
  \/ \E c \in Clients : savePurchaseFetch(c)
  \/ \E c \in Clients : retryAfterError(c)

SpecReserve == InitReserve /\ [][NextReserve]_vars

(***************************************************************************)
(* The same, each client submitting once: the requests of a race are the   *)
(* only requests there are.                                                *)
(***************************************************************************)
NextRace ==
  \/ handleApproveDrop
  \/ handleRejectDrop
  \/ fetchDrops
  \/ Tick
  \/ \E c \in Clients : handlePurchaseConfirm(c)
  \/ \E c \in Clients : savePurchaseRpc(c)
  \/ \E c \in Clients : savePurchaseRpcError(c)
  \/ \E c \in Clients : savePurchaseFetch(c)

SpecRace == InitReserve /\ [][NextRace]_vars

(***************************************************************************)
(* The reservation of an approved, live drop whose price the vendor edits  *)
(* while clients hold a copy of it.                                        *)
(***************************************************************************)
InitEdit ==
  /\ \E total \in 1..MaxQty, menu_items \in Menus :
       drop = [newDrop(total, menu_items, 1000, IF menu_items = << >> THEN 0 ELSE 10)
                 EXCEPT !.approval_status = APPROVED]
  /\ booking_fee_per_package = 100
  /\ now = 1
  /\ drops = NoDrop
  /\ attempts = [c \in Clients |-> Idle]
  /\ purchases = << >>
  /\ sessions = << >>
  /\ gateway = [g \in {1, 2} |-> [pc |-> "idle"]]
  /\ response = NoResponse
  /\ webhook = NoRequest
  /\ detail = NoDetail
  /\ form = NoDrop
  /\ submission = NoSubmissions

NextEdit ==
  \/ UpdateDrop
  \/ fetchDrops
  \/ \E c \in Clients : handlePurchaseConfirm(c)
  \/ \E c \in Clients : savePurchaseRpc(c)
  \/ \E c \in Clients : savePurchaseRpcError(c)
  \/ \E c \in Clients : savePurchaseFetch(c)
  \/ \E c \in Clients : retryAfterError(c)

SpecEdit == InitEdit /\ [][NextEdit]_vars

(***************************************************************************)
(* The paths to the reservation that do not pass DropDetail's checks: a    *)
(* call of savePurchase with any quantity, and the bulk order form.        *)
(***************************************************************************)
\* savePurchase called with a quantity nobody checked: it checks the approval
\* of its copy and calls the rpc
savePurchaseDirect(c) ==
  /\ attempts[c].pc = "idle"
  /\ drops # NoDrop
  /\ \E qty \in 0..MaxReq, delivery \in BOOLEAN :
       LET payload == [quantity |-> qty, deliveryRequested |-> delivery,
                       selectedItems |-> finalSelections(drops.menu_items, << >>)]
       IN IF drops.approval_status # APPROVED
            THEN attempts' = [attempts EXCEPT ![c] =
                   [pc |-> "failed", error |-> "This package is not approved for booking yet."]]
            ELSE attempts' = [attempts EXCEPT ![c] =
                   [pc |-> "rpc", params |-> rpcParams(drops, payload)]]
  /\ UNCHANGED <<drop, booking_fee_per_package, now, drops, purchases, payVars, detail, form, submission>>

\* BulkOrderModal: validate, then onConfirm with the quantity of the form
bulkOrderSubmit(c) ==
  /\ attempts[c].pc = "idle"
  /\ drops # NoDrop
  /\ \E initialQuantity \in 0..(MaxReq + 1) :
       LET maxQuantity == MaxReq
           payload == [quantity |-> initialQuantity, deliveryRequested |-> FALSE,
                       selectedItems |-> finalSelections(drops.menu_items, << >>)]
       IN IF initialQuantity < 1 \/ initialQuantity > maxQuantity
            THEN attempts' = [attempts EXCEPT ![c] =
                   [pc |-> "failed", error |-> "Quantity must be between 1 and maxQuantity.",
                    quantity |-> initialQuantity]]
          ELSE IF drops.approval_status # APPROVED
            THEN attempts' = [attempts EXCEPT ![c] =
                   [pc |-> "failed", error |-> "This package is not approved for booking yet."]]
          ELSE attempts' = [attempts EXCEPT ![c] =
                   [pc |-> "rpc", params |-> rpcParams(drops, payload)]]
  /\ UNCHANGED <<drop, booking_fee_per_package, now, drops, purchases, payVars, detail, form, submission>>

NextDirect ==
  \/ fetchDrops
  \/ \E c \in Clients : savePurchaseDirect(c)
  \/ \E c \in Clients : bulkOrderSubmit(c)
  \/ \E c \in Clients : savePurchaseRpc(c)
  \/ \E c \in Clients : savePurchaseRpcError(c)
  \/ \E c \in Clients : savePurchaseFetch(c)
  \/ \E c \in Clients : retryAfterError(c)

SpecDirect == InitEdit /\ [][NextDirect]_vars

(***************************************************************************)
(* The submit of the checkout forms: CheckoutModal (handleNextStep, then   *)
(* handlePayment), the quick checkout of DropDetail (handlePurchaseClick)  *)
(* and BulkOrderModal (handleSubmit).  Each sets its flag, awaits          *)
(* onConfirm / onPurchaseConfirm and clears the flag in finally.           *)
(***************************************************************************)
\* a plausible slip: nothing looks at the flag
submitBlockedNever(f, st) == FALSE

\* the submit button is disabled={isProcessing} (isQuickCheckoutLoading for
\* the quick checkout), and handlePayment returns if (isProcessing)
submitBlocked(f, st) == st.isProcessing

\* a click on the form's submit button; its own validation may refuse it
submitForm(f) ==
  /\ submission[f].last # "redirected"
  /\ IF submitBlocked(f, submission[f])
       THEN submission' = [submission EXCEPT ![f].last = "ignored"]
     ELSE \E valid \in BOOLEAN :
       IF ~valid
         THEN submission' = [submission EXCEPT
                ![f].last = "invalid",
                ![f].errorMessage = "Please enter a valid name."]
         ELSE submission' = [submission EXCEPT
                ![f].isProcessing = TRUE,
                ![f].outstanding = @ + 1,
                ![f].last = "started",
                ![f].errorMessage = NULL]
  /\ submission' # submission
  /\ UNCHANGED <<drop, booking_fee_per_package, now, drops, attempts, purchases, payVars, detail, form>>

\* onConfirm resolves with the url: window.location.assign, then finally
settleResolved(f) ==
  /\ submission[f].outstanding > 0
  /\ submission' = [submission EXCEPT ![f].outstanding = @ - 1,
                                      ![f].isProcessing = FALSE,
                                      ![f].last = "redirected"]
  /\ UNCHANGED <<drop, booking_fee_per_package, now, drops, attempts, purchases, payVars, detail, form>>

\* onConfirm rejects: the message is shown, then finally
settleRejected(f) ==
  /\ submission[f].outstanding > 0
  /\ submission' = [submission EXCEPT ![f].outstanding = @ - 1,
                                      ![f].isProcessing = FALSE,
                                      ![f].last = "rejected",
                                      ![f].errorMessage = "Payment failed. Please try again."]
  /\ UNCHANGED <<drop, booking_fee_per_package, now, drops, attempts, purchases, payVars, detail, form>>

NextSubmit ==
  \/ \E f \in Forms : submitForm(f)
  \/ \E f \in Forms : settleResolved(f)
  \/ \E f \in Forms : settleRejected(f)

SpecSubmit == InitEdit /\ [][NextSubmit]_vars

(***************************************************************************)
(* The catalog: a drop is submitted (SellerStudio, or a payload given to   *)
(* addDrop), approved or rejected, edited in AdminDropForm, and bought by   *)
(* one customer.                                                           *)
(***************************************************************************)
ApprovalStatuses == {PENDING, APPROVED, REJECTED}

\* "Total Available Units" of SellerStudio: Number(e.target.value) of a number
\* input without bounds
PublishQuantities == (-1)..MaxQty

\* addDrop: the payload is inserted with approval_status pending
addDrop(payload) ==
  [f \in DOMAIN payload \cup {"approval_status"} |->
     IF f = "approval_status" THEN PENDING ELSE payload[f]]

\* handleSaveDrop with a new drop: handlePublish's, or a payload that carries
\* an approval_status of its own
handleSaveDropNew ==
  /\ drop = NoDrop
  /\ \E total \in PublishQuantities, approval_status \in ApprovalStatuses :
       drop' = addDrop([newDrop(total, << >>, 1000, 0) EXCEPT
                          !.approval_status = approval_status])
  /\ UNCHANGED <<booking_fee_per_package, now, drops, attempts, purchases, payVars, detail, form, submission>>

\* AdminDropForm is opened on a drop: getInitialState copies it
openDropForm ==
  /\ drop # NoDrop
  /\ form = NoDrop
  /\ submission = NoSubmissions
  /\ form' = drop
  /\ UNCHANGED <<drop, booking_fee_per_package, now, drops, attempts, purchases, payVars, detail, submission>>

\* the Total Quantity input of the form: Math.max(1, parsed)
changeTotalQuantity ==
  /\ form # NoDrop
  /\ \E parsed \in 0..MaxQty :
       /\ form' = [form EXCEPT !.total_quantity = IF parsed > 1 THEN parsed ELSE 1]
       /\ form' # form
  /\ UNCHANGED <<drop, booking_fee_per_package, now, drops, attempts, purchases, payVars, detail, submission>>

\* handleSubmit: onSave(cleanData), the whole formData; handleSaveDrop takes
\* the id out and gives the rest to updateDrop
adminDropFormSubmit ==
  /\ form # NoDrop
  /\ updateDrop(form)

\* onClose
closeDropForm ==
  /\ form # NoDrop
  /\ form' = NoDrop
  /\ UNCHANGED <<drop, booking_fee_per_package, now, drops, attempts, purchases, payVars, detail, submission>>

InitCatalog ==
  /\ drop = NoDrop
  /\ booking_fee_per_package = 100
  /\ now = 1
  /\ drops = NoDrop
  /\ attempts = [c \in Clients |-> Idle]
  /\ purchases = << >>
  /\ sessions = << >>
  /\ gateway = [g \in {1, 2} |-> [pc |-> "idle"]]
  /\ response = NoResponse
  /\ webhook = NoRequest
  /\ detail = NoDetail
  /\ form = NoDrop
  /\ submission = NoSubmissions

NextCatalog ==
  \/ handleSaveDropNew
  \/ drop # NoDrop /\ handleApproveDrop
  \/ drop # NoDrop /\ handleRejectDrop
  \/ openDropForm
  \/ changeTotalQuantity
  \/ adminDropFormSubmit
  \/ closeDropForm
  \/ drop # NoDrop /\ fetchDrops
  \/ handlePurchaseConfirm(1)
  \/ drop # NoDrop /\ Len(purchases) < MaxOrders /\ savePurchaseRpc(1)
  \/ savePurchaseRpcError(1)
  \/ savePurchaseFetch(1)
  \/ retryAfterError(1)

SpecCatalog == InitCatalog /\ [][NextCatalog]_vars

(***************************************************************************)
(* The payment provider: checkout sessions and the events it emits.  A     *)
(* session's id is its index; its payment intent carries the same number.  *)
(* Events are delivered at least once, in any order, any number of times.  *)
(***************************************************************************)
COMPLETED == "checkout.session.completed"
ASYNC_FAILED == "checkout.session.async_payment_failed"
EXPIRED == "checkout.session.expired"
REFUNDED == "charge.refunded"

\* the customer pays on the hosted page, whose url the gateway has answered
providerComplete(s) ==
  /\ sessions[s].status = "open"
  /\ sessions[s].url_returned
  /\ sessions' = [sessions EXCEPT ![s].status = "complete",
                                  ![s].events = @ \cup {COMPLETED}]
  /\ UNCHANGED <<detail, reserveVars, now, purchases, gateway, response, webhook>>

\* the session is abandoned until the provider closes it
providerExpire(s) ==
  /\ sessions[s].status = "open"
  /\ sessions' = [sessions EXCEPT ![s].status = "expired",
                                  ![s].events = @ \cup {EXPIRED}]
  /\ UNCHANGED <<detail, reserveVars, now, purchases, gateway, response, webhook>>

\* a delayed payment method declines after the session completed
providerAsyncFail(s) ==
  /\ sessions[s].status = "complete"
  /\ sessions[s].events \cap {ASYNC_FAILED, REFUNDED} = {}
  /\ sessions' = [sessions EXCEPT ![s].events = @ \cup {ASYNC_FAILED}]
  /\ UNCHANGED <<detail, reserveVars, now, purchases, gateway, response, webhook>>

\* the charge of a completed session is refunded
providerRefund(s) ==
  /\ sessions[s].status = "complete"
  /\ sessions[s].events \cap {ASYNC_FAILED, REFUNDED} = {}
  /\ sessions' = [sessions EXCEPT ![s].events = @ \cup {REFUNDED}]
  /\ UNCHANGED <<detail, reserveVars, now, purchases, gateway, response, webhook>>

sessionEvent(s, type) ==
  IF type = REFUNDED
    THEN [type |-> type, session |-> NONE, purchase_id |-> NONE, payment_intent |-> s]
    ELSE [type |-> type, session |-> s, purchase_id |-> sessions[s].purchase_id,
          payment_intent |-> IF type = EXPIRED THEN NONE ELSE s]

\* what the provider has emitted for the gateway's sessions
EmittedEvents ==
  {sessionEvent(s, type) : s \in DOMAIN sessions, type \in {COMPLETED, ASYNC_FAILED, EXPIRED, REFUNDED}}
  \cap UNION {{sessionEvent(s, type) : type \in sessions[s].events} : s \in DOMAIN sessions}

\* events of the account that are not about a gateway session: another event
\* type, sessions that carry no purchase_id, a charge without a payment intent
ForeignEvents ==
  {[type |-> "payment_intent.succeeded", session |-> NONE, purchase_id |-> NONE,
    payment_intent |-> NONE],
   [type |-> COMPLETED, session |-> MaxSessions + 1, purchase_id |-> NONE,
    payment_intent |-> MaxSessions + 1],
   [type |-> ASYNC_FAILED, session |-> MaxSessions + 1, purchase_id |-> NONE,
    payment_intent |-> MaxSessions + 1],
   [type |-> EXPIRED, session |-> MaxSessions + 1, purchase_id |-> NONE,
    payment_intent |-> NONE],
   [type |-> REFUNDED, session |-> NONE, purchase_id |-> NONE,
    payment_intent |-> NONE]}

\* what a sender without the signing secret can put in a request body
ForgedEvents ==
  {[type |-> COMPLETED, session |-> MaxSessions + 1, purchase_id |-> i,
    payment_intent |-> MaxSessions + 1] : i \in DOMAIN purchases}

(***************************************************************************)
(* stripe-webhook.                                                         *)
(***************************************************************************)
Signatures == {"missing", "invalid", "valid"}

\* a plausible slip: the event is parsed from the body without verification
constructEventUnverified(sig) == sig # "missing"

\* stripe.webhooks.constructEventAsync: it throws unless the signature verifies
constructEvent(sig) == sig = "valid"

\* a plausible slip: the refund takes the amount off the order
webhookUpdateZeroingRefund(rows, event, t) ==
  [i \in DOMAIN rows |->
     IF event.type = COMPLETED /\ event.purchase_id # NONE /\ i = event.purchase_id
       THEN [rows[i] EXCEPT !.payment_status = "paid",
                            !.stripe_checkout_session_id = event.session,
                            !.stripe_payment_intent_id = event.payment_intent,
                            !.paid_at = t]
     ELSE IF /\ event.type \in {ASYNC_FAILED, EXPIRED}
             /\ event.purchase_id # NONE /\ i = event.purchase_id
             /\ rows[i].payment_status # "paid"
       THEN [rows[i] EXCEPT !.payment_status = "failed",
                            !.stripe_checkout_session_id = event.session]
     ELSE IF /\ event.type = REFUNDED
             /\ event.payment_intent # NONE
             /\ rows[i].stripe_payment_intent_id = event.payment_intent
       THEN [rows[i] EXCEPT !.payment_status = "refunded", !.total_paid = 0]
     ELSE rows[i]]

\* a plausible slip: the refund is matched without looking whether the charge
\* has a payment intent
webhookUpdateAnyIntent(rows, event, t) ==
  [i \in DOMAIN rows |->
     IF event.type = COMPLETED /\ event.purchase_id # NONE /\ i = event.purchase_id
       THEN [rows[i] EXCEPT !.payment_status = "paid",
                            !.stripe_checkout_session_id = event.session,
                            !.stripe_payment_intent_id = event.payment_intent,
                            !.paid_at = t]
     ELSE IF /\ event.type \in {ASYNC_FAILED, EXPIRED}
             /\ event.purchase_id # NONE /\ i = event.purchase_id
             /\ rows[i].payment_status # "paid"
       THEN [rows[i] EXCEPT !.payment_status = "failed",
                            !.stripe_checkout_session_id = event.session]
     ELSE IF /\ event.type = REFUNDED
             /\ rows[i].stripe_payment_intent_id = event.payment_intent
       THEN [rows[i] EXCEPT !.payment_status = "refunded"]
     ELSE rows[i]]

\* the three updates of the try block, on the purchases table
webhookUpdate(rows, event, t) ==
  [i \in DOMAIN rows |->
     IF event.type = COMPLETED /\ event.purchase_id # NONE /\ i = event.purchase_id
       THEN [rows[i] EXCEPT !.payment_status = "paid",
                            !.stripe_checkout_session_id = event.session,
                            !.stripe_payment_intent_id = event.payment_intent,
                            !.paid_at = t]
     ELSE IF /\ event.type \in {ASYNC_FAILED, EXPIRED}
             /\ event.purchase_id # NONE /\ i = event.purchase_id
             /\ rows[i].payment_status # "paid"
       THEN [rows[i] EXCEPT !.payment_status = "failed",
                            !.stripe_checkout_session_id = event.session]
     ELSE IF /\ event.type = REFUNDED
             /\ event.payment_intent # NONE
             /\ rows[i].stripe_payment_intent_id = event.payment_intent
       THEN [rows[i] EXCEPT !.payment_status = "refunded"]
     ELSE rows[i]]

\* one request: signature header, constructEventAsync, then the try block's
\* update and { received: true }
stripeWebhookRequest(sig, event) ==
  /\ IF sig = "missing"
       THEN /\ webhook' = [signature |-> sig, status |-> 400, updateError |-> NULL]
            /\ UNCHANGED purchases
     ELSE IF ~constructEvent(sig)
       THEN /\ webhook' = [signature |-> sig, status |-> 400, updateError |-> NULL]
            /\ UNCHANGED purchases
     ELSE /\ purchases' = webhookUpdate(purchases, event, now)
          /\ webhook' = [signature |-> sig, status |-> 200, updateError |-> NULL]
  /\ UNCHANGED <<detail, reserveVars, now, sessions, gateway, response>>

stripeWebhook ==
  \E sig \in Signatures :
    \E event \in (IF sig = "valid" THEN EmittedEvents \cup ForeignEvents
                  ELSE ForgedEvents) :
      stripeWebhookRequest(sig, event)

\* the update for the event is refused by the database: supabase-js returns
\* { error }, the handler does not read it
stripeWebhookRequestDbError(event) ==
  /\ webhook' = [signature |-> "valid", status |-> 200, updateError |-> "PostgrestError"]
  /\ UNCHANGED <<detail, reserveVars, now, purchases, sessions, gateway, response>>

stripeWebhookDbError ==
  \E event \in EmittedEvents : stripeWebhookRequestDbError(event)

(***************************************************************************)
(* create-checkout-session.                                                *)
(***************************************************************************)
Slots == {1, 2}

InService(g) == gateway[g].pc # "idle"

respond(status, error, purchaseId, sessionId, reused) ==
  [status |-> status, error |-> error, purchaseId |-> purchaseId,
   sessionId |-> sessionId, reused |-> reused]

\* a plausible slip: only the paid order is refused
statusCheckPaidOnly(payment_status) ==
  IF payment_status = "paid" THEN "Purchase is already paid." ELSE NULL

\* the two status checks: the error of the 400 they answer, or none
statusCheck(payment_status) ==
  IF payment_status = "paid" THEN "Purchase is already paid."
  ELSE IF payment_status = "refunded"
    THEN "Purchase has been refunded and cannot be repaid."
  ELSE NULL

\* the purchase is read and its status checked; a request is served by the first
\* slot that is free
gatewayRequest(g) ==
  /\ ~InService(g)
  /\ \A h \in Slots : h < g => InService(h)
  /\ \E purchaseId \in DOMAIN purchases :
       IF statusCheck(purchases[purchaseId].payment_status) # NULL
         THEN /\ response' = respond(400, statusCheck(purchases[purchaseId].payment_status),
                                     purchaseId, NONE, FALSE)
              /\ UNCHANGED gateway
       ELSE /\ gateway' = [gateway EXCEPT ![g] =
                 [pc |-> "read",
                  purchase |-> [id |-> purchaseId,
                                total_paid |-> purchases[purchaseId].total_paid,
                                stripe_checkout_session_id |->
                                  purchases[purchaseId].stripe_checkout_session_id]]]
            /\ UNCHANGED response
  /\ UNCHANGED <<detail, reserveVars, now, purchases, sessions, webhook>>

\* a plausible slip: the amount is passed on in dollars
amountInDollars(total_paid) == total_paid \div 100

\* Math.round(Number(total_paid) * 100): the stored amounts are whole cents
\* here, so the product has no fraction left to round
amountInCents(total_paid) == total_paid

\* stripe.checkout.sessions.create for the purchase that was read
createSession(g) ==
  IF amountInCents(gateway[g].purchase.total_paid) <= 0
    THEN /\ response' = respond(400, "Invalid purchase amount.",
                                gateway[g].purchase.id, NONE, FALSE)
         /\ gateway' = [gateway EXCEPT ![g] = [pc |-> "idle"]]
         /\ UNCHANGED sessions
    ELSE /\ Len(sessions) < MaxSessions
         /\ sessions' = Append(sessions,
              [purchase_id |-> gateway[g].purchase.id,
               unit_amount |-> amountInCents(gateway[g].purchase.total_paid),
               status |-> "open", events |-> {}, url_returned |-> FALSE])
         /\ gateway' = [gateway EXCEPT ![g] =
              [pc |-> "created", purchase_id |-> gateway[g].purchase.id,
               session |-> Len(sessions) + 1]]
         /\ UNCHANGED response

\* the stored session is retrieved and reused if open, else a session is created
gatewayReuseOrCreate(g) ==
  /\ gateway[g].pc = "read"
  /\ LET sid == gateway[g].purchase.stripe_checkout_session_id
     IN IF sid # NONE /\ sid \in DOMAIN sessions /\ sessions[sid].status = "open"
          THEN /\ response' = respond(200, NULL, gateway[g].purchase.id, sid, TRUE)
               /\ gateway' = [gateway EXCEPT ![g] = [pc |-> "idle"]]
               /\ sessions' = [sessions EXCEPT ![sid].url_returned = TRUE]
          ELSE createSession(g)
  /\ UNCHANGED <<detail, reserveVars, now, purchases, webhook>>

\* sessions.retrieve throws: "Ignore and create a new session."
gatewayRetrieveError(g) ==
  /\ gateway[g].pc = "read"
  /\ gateway[g].purchase.stripe_checkout_session_id # NONE
  /\ createSession(g)
  /\ UNCHANGED <<detail, reserveVars, now, purchases, webhook>>

\* sessions.create throws: the request ends in an error, nothing is stored
gatewayCreateError(g) ==
  /\ gateway[g].pc = "read"
  /\ amountInCents(gateway[g].purchase.total_paid) > 0
  /\ response' = respond(500, "Internal Server Error", gateway[g].purchase.id, NONE, FALSE)
  /\ gateway' = [gateway EXCEPT ![g] = [pc |-> "idle"]]
  /\ UNCHANGED <<detail, reserveVars, now, purchases, sessions, webhook>>

\* a plausible slip: the gateway marks the order paid when it opens the session
gatewayUpdateMarkingPaid(rows, id, sessionId) ==
  [i \in DOMAIN rows |->
     IF i = id
       THEN [rows[i] EXCEPT !.stripe_checkout_session_id = sessionId,
                            !.payment_status = "paid"]
       ELSE rows[i]]

\* the update of the purchase row with the new session
gatewayUpdate(rows, id, sessionId) ==
  [i \in DOMAIN rows |->
     IF i = id
       THEN [rows[i] EXCEPT !.stripe_checkout_session_id = sessionId,
                            !.payment_status = "pending"]
       ELSE rows[i]]

gatewayStore(g) ==
  /\ gateway[g].pc = "created"
  /\ purchases' = gatewayUpdate(purchases, gateway[g].purchase_id, gateway[g].session)
  /\ response' = respond(200, NULL, gateway[g].purchase_id, gateway[g].session, FALSE)
  /\ gateway' = [gateway EXCEPT ![g] = [pc |-> "idle"]]
  /\ sessions' = [sessions EXCEPT ![gateway[g].session].url_returned = TRUE]
  /\ UNCHANGED <<detail, reserveVars, now, webhook>>

gatewayStoreError(g) ==
  /\ gateway[g].pc = "created"
  /\ response' = respond(500, "Failed to store checkout session.",
                         gateway[g].purchase_id, NONE, FALSE)
  /\ gateway' = [gateway EXCEPT ![g] = [pc |-> "idle"]]
  /\ UNCHANGED <<detail, reserveVars, now, purchases, sessions, webhook>>

(***************************************************************************)
(* Payment: a pending order of the drop, the gateway called for it (the    *)
(* checkout, "Complete Payment"), the provider, the webhook.  The drop is  *)
(* sold at $10.00 with a $1.00 booking fee, or free with no booking fee.   *)
(***************************************************************************)
InitPay ==
  /\ \E flat \in {0, 1000} :
       LET fee == IF flat = 0 THEN 0 ELSE 100
           d == [newDrop(2, << >>, flat, 0) EXCEPT !.approval_status = APPROVED]
           p == [p_quantity |-> 1, p_total_paid |-> flat,
                 p_delivery_requested |-> FALSE, p_selected_items |-> << >>]
           r1 == purchase_drop_item(d, 1, fee, << >>, p)
       IN /\ drop = r1.drop
          /\ purchases = r1.purchases
          /\ booking_fee_per_package = fee
  /\ now = 1
  /\ drops = NoDrop
  /\ attempts = [c \in Clients |-> Idle]
  /\ sessions = << >>
  /\ gateway = [g \in Slots |-> [pc |-> "idle"]]
  /\ response = NoResponse
  /\ webhook = NoRequest
  /\ detail = NoDetail
  /\ form = NoDrop
  /\ submission = NoSubmissions

NextPay ==
  \/ \E g \in Slots : gatewayRequest(g)
  \/ \E g \in Slots : gatewayReuseOrCreate(g)
  \/ \E g \in Slots : gatewayRetrieveError(g)
  \/ \E g \in Slots : gatewayCreateError(g)
  \/ \E g \in Slots : gatewayStore(g)
  \/ \E g \in Slots : gatewayStoreError(g)
  \/ \E s \in DOMAIN sessions : providerComplete(s)
  \/ \E s \in DOMAIN sessions : providerExpire(s)
  \/ \E s \in DOMAIN sessions : providerAsyncFail(s)
  \/ \E s \in DOMAIN sessions : providerRefund(s)
  \/ stripeWebhook
  \/ stripeWebhookDbError

SpecPay == InitPay /\ [][NextPay]_vars

\* the same for two pending orders of the drop, one unit each
InitPayTwo ==
  /\ LET d == [newDrop(2, << >>, 1000, 0) EXCEPT !.approval_status = APPROVED]
         p == [p_quantity |-> 1, p_total_paid |-> 1000,
               p_delivery_requested |-> FALSE, p_selected_items |-> << >>]
         r1 == purchase_drop_item(d, 1, 100, << >>, p)
         r2 == purchase_drop_item(r1.drop, 1, 100, r1.purchases, p)
     IN /\ drop = r2.drop
        /\ purchases = r2.purchases
  /\ booking_fee_per_package = 100
  /\ now = 1
  /\ drops = NoDrop
  /\ attempts = [c \in Clients |-> Idle]
  /\ sessions = << >>
  /\ gateway = [g \in Slots |-> [pc |-> "idle"]]
  /\ response = NoResponse
  /\ webhook = NoRequest
  /\ detail = NoDetail
  /\ form = NoDrop
  /\ submission = NoSubmissions

SpecPayTwo == InitPayTwo /\ [][NextPay]_vars

\* the same with the clock running between the requests
NextPayClock ==
  \/ Tick
  \/ NextPay

SpecPayClock == InitPay /\ [][NextPayClock]_vars

(***************************************************************************)
(* The whole of handlePurchaseConfirm: after savePurchase it asks the      *)
(* gateway for a session, served here in one step, and hands the url to    *)
(* the form; any error is thrown to the form, which takes a new            *)
(* submission.                                                             *)
(***************************************************************************)
\* api.createCheckoutSession for the order that savePurchase returned
createCheckoutSession(c) ==
  /\ attempts[c].pc = "checkout"
  /\ LET id == attempts[c].purchase_id
         failed == [pc |-> "failed", error |-> "Unable to create checkout session.",
                    purchase_id |-> id, p_total_paid |-> attempts[c].p_total_paid]
     IN \/ \* a session is created and stored, the url is returned
           /\ Len(sessions) < MaxSessions
           /\ amountInCents(purchases[id].total_paid) > 0
           /\ sessions' = Append(sessions,
                [purchase_id |-> id,
                 unit_amount |-> amountInCents(purchases[id].total_paid),
                 status |-> "open", events |-> {}, url_returned |-> TRUE])
           /\ purchases' = gatewayUpdate(purchases, id, Len(sessions) + 1)
           /\ response' = respond(200, NULL, id, Len(sessions) + 1, FALSE)
           /\ attempts' = [attempts EXCEPT ![c].pc = "done"]
        \/ \* the function is not reached, or sessions.create throws
           /\ attempts' = [attempts EXCEPT ![c] = failed]
           /\ UNCHANGED <<sessions, purchases, response>>
  /\ UNCHANGED <<drop, booking_fee_per_package, now, drops, gateway, webhook, detail, form, submission>>

NextRetry ==
  \/ fetchDrops
  \/ \E c \in Clients : handlePurchaseConfirm(c)
  \/ \E c \in Clients : savePurchaseRpc(c)
  \/ \E c \in Clients : savePurchaseRpcError(c)
  \/ \E c \in Clients : savePurchaseFetch(c)
  \/ \E c \in Clients : createCheckoutSession(c)
  \/ \E c \in Clients : retryAfterError(c)

SpecRetry == InitEdit /\ [][NextRetry]_vars

(***************************************************************************)
(* DropDetail: the page of one drop.  Its drop prop is App's copy of the   *)
(* row; its state is the quantity, the delivery switch and the selections  *)
(* (item -> group -> options picked, in the order they were picked).       *)
(***************************************************************************)
OptC == [id |-> "c", additionalPrice |-> 300]

\* the menu of the page: a required single choice, an optional group capped
\* at two, and on a second item a group that requires two
DetailMenu ==
  << [id |-> "i1", basePrice |-> 2000,
      modifierGroups |->
        << [id |-> "g1", minSelect |-> 1, maxSelect |-> 1, options |-> <<OptA, OptB>>],
           [id |-> "g2", minSelect |-> 0, maxSelect |-> 2,
            options |-> <<OptA, OptB, OptC>>] >>],
     [id |-> "i2", basePrice |-> 1000,
      modifierGroups |->
        << [id |-> "g3", minSelect |-> 2, maxSelect |-> 2,
            options |-> <<OptA, OptB, OptC>>] >>] >>

\* the groups of the menu, as <<item, group>> positions
Groups(menu_items) ==
  {<<i, g>> \in (DOMAIN menu_items) \X (1..2) : g \in DOMAIN menu_items[i].modifierGroups}

\* useState({}): nothing picked; selections[item]?.[group] || []
NoSelections == [i \in 1..2 |-> [g \in 1..2 |-> << >>]]

NoAlert == [item |-> NULL, group |-> NULL, minSelect |-> NONE]
NotSubmitted == [quantity |-> NONE]

toggleOption(selections, i, g, option, maxSelect) ==
  LET groupSels == selections[i][g]
      newGroupSels ==
        IF \E k \in DOMAIN groupSels : groupSels[k].id = option.id
          THEN SelectSeq(groupSels, LAMBDA o : o.id # option.id)
        ELSE IF maxSelect = 1 THEN <<option>>
        ELSE IF Len(groupSels) < maxSelect THEN Append(groupSels, option)
        ELSE groupSels
  IN [selections EXCEPT ![i][g] = newGroupSels]

\* a plausible slip: the modifiers are left out of the unit price
unitPriceBase(d, selections) ==
  IF d.menu_items = << >> THEN d.price
  ELSE SumSeq([i \in DOMAIN d.menu_items |-> d.menu_items[i].basePrice])

unitPrice(d, selections) ==
  IF d.menu_items = << >> THEN d.price
  ELSE SumSeq([i \in DOMAIN d.menu_items |->
         d.menu_items[i].basePrice
         + SumSeq([g \in DOMAIN selections[i] |->
             SumSeq([k \in DOMAIN selections[i][g] |->
               selections[i][g][k].additionalPrice])])])

\* calculatedSubtotal .. orderTotal; tax_rate is in percent here
orderTotal(d, selections, qty, deliveryRequested, bookingFeePerPackage) ==
  LET calculatedSubtotal == unitPrice(d, selections) * qty
      deliveryFee == IF deliveryRequested THEN d.delivery_fee ELSE 0
      bookingFee == bookingFeePerPackage * qty
      taxRate == d.tax_rate
      taxAmount == ((calculatedSubtotal + deliveryFee + bookingFee) * taxRate) \div 100
  IN [unitPrice |-> unitPrice(d, selections),
      subtotal |-> calculatedSubtotal,
      deliveryFee |-> deliveryFee,
      bookingFee |-> bookingFee,
      taxAmount |-> taxAmount,
      total |-> calculatedSubtotal + deliveryFee + bookingFee + taxAmount]

\* the two loops of validateSelections: the groups in item order, then group
\* order
Positions(menu_items) ==
  SelectSeq(<< <<1, 1>>, <<1, 2>>, <<2, 1>>, <<2, 2>> >>,
            LAMBDA p : p \in Groups(menu_items))

\* group.minSelect > 0 && currentSelections.length < group.minSelect
Short(d, selections, p) ==
  LET group == d.menu_items[p[1]].modifierGroups[p[2]]
  IN group.minSelect > 0 /\ Len(selections[p[1]][p[2]]) < group.minSelect

alertFor(d, p) ==
  [item |-> d.menu_items[p[1]].id,
   group |-> d.menu_items[p[1]].modifierGroups[p[2]].id,
   minSelect |-> d.menu_items[p[1]].modifierGroups[p[2]].minSelect]

\* the loops return at the first group that is short
RECURSIVE firstShort(_, _, _)
firstShort(d, selections, ps) ==
  IF ps = << >> THEN NoAlert
  ELSE IF Short(d, selections, Head(ps)) THEN alertFor(d, Head(ps))
  ELSE firstShort(d, selections, Tail(ps))

\* the loops without the return: the last alert is the one that stays
RECURSIVE lastShort(_, _, _)
lastShort(d, selections, ps) ==
  IF ps = << >> THEN NoAlert
  ELSE IF lastShort(d, selections, Tail(ps)) # NoAlert
    THEN lastShort(d, selections, Tail(ps))
  ELSE IF Short(d, selections, Head(ps)) THEN alertFor(d, Head(ps))
  ELSE NoAlert

\* a plausible slip: every short group alerts, the last one remains
validateSelectionsNoReturn(d, selections) ==
  lastShort(d, selections, Positions(d.menu_items))

\* a plausible slip: a required group alerts only when nothing is picked in it
validateSelectionsEmptyOnly(d, selections) ==
  LET empty == SelectSeq(Positions(d.menu_items),
                         LAMBDA p : /\ d.menu_items[p[1]].modifierGroups[p[2]].minSelect > 0
                                    /\ selections[p[1]][p[2]] = << >>)
  IN IF empty = << >> THEN NoAlert ELSE alertFor(d, Head(empty))

\* validateSelections: the alert it raises, or none when it returns true
validateSelections(d, selections) ==
  firstShort(d, selections, Positions(d.menu_items))

\* handleConfirmCheckout: what is passed to onPurchaseConfirm, with the total
\* on the page and the total savePurchase makes of it.  The page is given the
\* booking fee its props declare; App leaves the prop out, and the fee and
\* the total on the page are then NaN.
handleConfirmCheckout(d, st, bookingFeePerPackage) ==
  LET finalSel ==
        [i \in DOMAIN d.menu_items |->
           [itemId |-> d.menu_items[i].id,
            basePrice |-> d.menu_items[i].basePrice,
            selectedModifiers |->
              [g \in DOMAIN d.menu_items[i].modifierGroups |->
                 [groupId |-> d.menu_items[i].modifierGroups[g].id,
                  options |-> st.selections[i][g]]]]]
      payload == [quantity |-> st.qty, deliveryRequested |-> st.deliveryRequested,
                  selectedItems |-> finalSel]
  IN [quantity |-> st.qty,
      deliveryRequested |-> st.deliveryRequested,
      selectedItems |-> finalSel,
      orderTotal |-> orderTotal(d, st.selections, st.qty, st.deliveryRequested,
                                bookingFeePerPackage).total,
      p_total_paid |-> savePurchaseTotal(d, payload)]

Open == detail.drop # NoDrop /\ detail.submitted = NotSubmitted

\* a click on an option of the page; the checkout modal, while open, covers the
\* page (fixed inset-0) and its controls
ToggleOption ==
  /\ Open
  /\ ~detail.isCheckoutOpen
  /\ \E p \in Groups(detail.drop.menu_items) :
       LET group == detail.drop.menu_items[p[1]].modifierGroups[p[2]]
       IN \E k \in DOMAIN group.options :
            detail' = [detail EXCEPT
              !.selections = toggleOption(@, p[1], p[2], group.options[k], group.maxSelect),
              !.alert = NoAlert]
  /\ UNCHANGED <<reserveVars, now, purchases, payVars>>

\* the - and + buttons of the quantity
SetQty ==
  /\ Open
  /\ ~detail.isCheckoutOpen
  /\ \E next \in {IF detail.qty - 1 > 1 THEN detail.qty - 1 ELSE 1, detail.qty + 1} :
       /\ next <= MaxReq + 1
       /\ detail' = [detail EXCEPT !.qty = next, !.qtyError = NULL, !.alert = NoAlert]
  /\ UNCHANGED <<reserveVars, now, purchases, payVars>>

SetDeliveryRequested ==
  /\ Open
  /\ ~detail.isCheckoutOpen
  /\ detail' = [detail EXCEPT !.deliveryRequested = ~@, !.alert = NoAlert]
  /\ UNCHANGED <<reserveVars, now, purchases, payVars>>

\* "Buy": the checks, then the quick checkout of a signed-in customer who
\* picks up, or the checkout modal
handlePurchaseClick ==
  /\ Open
  /\ ~detail.isCheckoutOpen
  /\ IF validateSelections(detail.drop, detail.selections) # NoAlert
       THEN detail' = [detail EXCEPT
              !.alert = validateSelections(detail.drop, detail.selections)]
     ELSE IF detail.qty < 1
       THEN detail' = [detail EXCEPT !.qtyError = "Quantity must be at least 1.",
                                     !.alert = NoAlert]
     ELSE IF detail.qty > detail.drop.quantity_remaining
       THEN detail' = [detail EXCEPT !.qtyError = "left in stock", !.alert = NoAlert]
     ELSE IF ~detail.deliveryRequested
       THEN detail' = [detail EXCEPT
              !.qtyError = NULL, !.alert = NoAlert,
              !.submitted = handleConfirmCheckout(detail.drop, detail,
                                                  booking_fee_per_package)]
     ELSE detail' = [detail EXCEPT !.qtyError = NULL, !.alert = NoAlert,
                                   !.isCheckoutOpen = TRUE]
  /\ UNCHANGED <<reserveVars, now, purchases, payVars>>

\* the checkout modal is confirmed
confirmCheckoutModal ==
  /\ Open
  /\ detail.isCheckoutOpen
  /\ detail' = [detail EXCEPT
       !.submitted = handleConfirmCheckout(detail.drop, detail, booking_fee_per_package)]
  /\ UNCHANGED <<reserveVars, now, purchases, payVars>>

\* the modal is closed without paying: onClose
closeCheckoutModal ==
  /\ Open
  /\ detail.isCheckoutOpen
  /\ detail' = [detail EXCEPT !.isCheckoutOpen = FALSE]
  /\ UNCHANGED <<reserveVars, now, purchases, payVars>>

\* the vendor lowers the cap of the optional group to one (handleSaveDrop)
lowerMaxSelect ==
  /\ drop.menu_items # << >>
  /\ drop.menu_items[1].modifierGroups[2].maxSelect = 2
  /\ updateDrop([menu_items |->
                   [drop.menu_items EXCEPT ![1].modifierGroups[2].maxSelect = 1]])

\* fetchDrops gives the page the row as it is now
refreshDetail ==
  /\ Open
  /\ detail.drop # drop
  /\ detail' = [detail EXCEPT !.drop = drop]
  /\ UNCHANGED <<reserveVars, now, purchases, payVars>>

InitDetail ==
  /\ \E total \in 1..MaxQty, menu_items \in {<< >>, DetailMenu} :
       drop = [newDrop(total, menu_items, 1000, IF menu_items = << >> THEN 0 ELSE 10)
                 EXCEPT !.approval_status = APPROVED]
  /\ booking_fee_per_package = 100
  /\ now = 1
  /\ drops = NoDrop
  /\ attempts = [c \in Clients |-> Idle]
  /\ purchases = << >>
  /\ sessions = << >>
  /\ gateway = [g \in Slots |-> [pc |-> "idle"]]
  /\ response = NoResponse
  /\ webhook = NoRequest
  /\ detail = [drop |-> drop, qty |-> 1, deliveryRequested |-> FALSE,
               selections |-> NoSelections, qtyError |-> NULL, alert |-> NoAlert,
               isCheckoutOpen |-> FALSE, submitted |-> NotSubmitted]
  /\ form = NoDrop
  /\ submission = NoSubmissions

NextDetail ==
  \/ ToggleOption
  \/ SetQty
  \/ SetDeliveryRequested
  \/ handlePurchaseClick
  \/ confirmCheckoutModal
  \/ closeCheckoutModal
  \/ lowerMaxSelect
  \/ refreshDetail

SpecDetail == InitDetail /\ [][NextDetail]_vars

(***************************************************************************)
(* Claims about the reservation core.                                      *)
(***************************************************************************)
SumQuantity(rows) == SumSeq([i \in DOMAIN rows |-> rows[i].quantity])

Reserved(c) ==
  \/ attempts[c].pc \in {"fetch", "checkout"}
  \/ attempts[c].pc = "failed" /\ attempts[c].error = "fetchError"

Refused(c, error) == attempts[c].pc = "failed" /\ attempts[c].error = error

\* C1: the drop was published with remaining = total_quantity = N.  In every
\* state reached by concurrent reservation attempts the created orders' quantities
\* sum to at most N, remaining is not negative, and remaining is N minus that sum
\* (so also once every attempt has settled).
C1_InventoryConservation ==
  /\ SumQuantity(purchases) <= drop.total_quantity
  /\ drop.quantity_remaining >= 0
  /\ drop.quantity_remaining = drop.total_quantity - SumQuantity(purchases)

\* the stock is sold out by one client while another is refused for lack of stock
C1_Witness ==
  /\ drop.total_quantity = MaxQty
  /\ drop.quantity_remaining = 0
  /\ \E c, d \in Clients : Reserved(c) /\ Refused(d, "InsufficientInventory")
  /\ \A c \in Clients : Settled(attempts[c])

\* the requests of the example: quantity 1, no delivery, answered on the stock
RaceRequest(c) ==
  \/ /\ Reserved(c)
     /\ purchases[attempts[c].purchase_id].quantity = 1
     /\ ~purchases[attempts[c].purchase_id].delivery_requested
  \/ /\ Refused(c, "InsufficientInventory")
     /\ attempts[c].params.p_quantity = 1
     /\ ~attempts[c].params.p_delivery_requested

\* C2: a drop of one unit, price 10, no tax, booking fee 1 per unit; every client
\* sent one request for quantity 1 without delivery and each was answered on the
\* stock.  Then exactly one of them reserved: there is one order, pending, with
\* total_paid 11.00, remaining is 0, and every other request was refused with
\* InsufficientInventory.
C2_LastUnitRace ==
  ( /\ drop.total_quantity = 1
    /\ drop.menu_items = << >> /\ drop.price = 1000 /\ drop.tax_rate = 0
    /\ booking_fee_per_package = 100
    /\ \A c \in Clients : RaceRequest(c) )
  => /\ Len(purchases) = 1
     /\ purchases[1].payment_status = "pending"
     /\ purchases[1].total_paid = 1100
     /\ drop.quantity_remaining = 0
     /\ \E w \in Clients :
          /\ Reserved(w) /\ attempts[w].purchase_id = 1
          /\ \A c \in Clients \ {w} : Refused(c, "InsufficientInventory")

C2_Witness ==
  /\ drop.total_quantity = 1
  /\ drop.menu_items = << >> /\ drop.price = 1000 /\ drop.tax_rate = 0
  /\ booking_fee_per_package = 100
  /\ \A c \in Clients : RaceRequest(c)
  /\ \E c \in Clients : Refused(c, "InsufficientInventory")

Purchasable(d, t, qty) ==
  /\ d.approval_status = APPROVED
  /\ d.start_date <= t /\ t <= d.end_date
  /\ d.quantity_remaining >= qty

\* C3: whenever a reservation is answered, an order is created and remaining
\* decremented only if at that moment the drop is approved, the time is inside its
\* window and remaining >= the quantity asked, whatever the client's copy says;
\* otherwise nothing is written and the error is DropNotApproved, DropNotLive or
\* InsufficientInventory, each only when its condition fails.
C3_ReservedOnlyIfPurchasable ==
  [][\A c \in Clients :
       (attempts[c].pc = "rpc" /\ attempts'[c].pc # "rpc") =>
          LET qty == attempts[c].params.p_quantity
              ok == Purchasable(drop, now, qty)
          IN /\ (purchases' # purchases \/ drop' # drop) => ok
             /\ attempts'[c].pc = "fetch" =>
                  /\ ok
                  /\ Len(purchases') = Len(purchases) + 1
                  /\ drop'.quantity_remaining = drop.quantity_remaining - qty
             /\ ~ok =>
                  /\ attempts'[c].pc = "failed"
                  /\ purchases' = purchases /\ drop' = drop
                  /\ attempts'[c].error \in
                       {"DropNotApproved", "DropNotLive", "InsufficientInventory",
                        "PersistenceError"}
             /\ (attempts'[c].pc = "failed" /\ attempts'[c].error = "DropNotApproved")
                  => drop.approval_status # APPROVED
             /\ (attempts'[c].pc = "failed" /\ attempts'[c].error = "DropNotLive")
                  => (now < drop.start_date \/ now > drop.end_date)
             /\ (attempts'[c].pc = "failed" /\ attempts'[c].error = "InsufficientInventory")
                  => drop.quantity_remaining < qty
    ]_vars

\* the client's copy still says approved, and the reservation was refused because
\* the drop is no longer approved, or its window has closed
C3_Witness ==
  /\ drops # NoDrop
  /\ drops.approval_status = APPROVED
  /\ \E c, d \in Clients :
       /\ Refused(c, "DropNotApproved")
       /\ Refused(d, "DropNotLive")
  /\ Len(purchases) > 0

\* C4: every order's total_paid is what the server computes from the drop, the
\* quantity, the selections, the fees and the tax rate, and two orders reserved
\* with the same quantity, delivery flag and selections at the same price have the
\* same total_paid, whatever p_total_paid their requests carried.
C4_ServerTotal ==
  /\ \A i \in DOMAIN purchases :
       LET o == purchases[i]
       IN /\ o.booking_fee = booking_fee_per_package * o.quantity
          /\ o.delivery_fee = (IF o.delivery_requested THEN drop.delivery_fee ELSE 0)
          /\ \E price \in Prices :
               o.subtotal = o.quantity *
                 serverUnitPrice([drop EXCEPT !.price = price], o.selected_items)
          /\ o.tax_amount =
               ((o.subtotal + o.delivery_fee + o.booking_fee) * drop.tax_rate) \div 100
          /\ o.total_paid = o.subtotal + o.delivery_fee + o.booking_fee + o.tax_amount
  /\ \A i, j \in DOMAIN purchases :
       ( /\ purchases[i].quantity = purchases[j].quantity
         /\ purchases[i].delivery_requested = purchases[j].delivery_requested
         /\ purchases[i].selected_items = purchases[j].selected_items
         /\ purchases[i].subtotal = purchases[j].subtotal )
       => purchases[i].total_paid = purchases[j].total_paid

\* two orders of the same inputs whose requests carried different totals
C4_Witness ==
  \E c, d \in Clients :
    /\ Reserved(c) /\ Reserved(d)
    /\ attempts[c].p_total_paid # attempts[d].p_total_paid
    /\ LET o1 == purchases[attempts[c].purchase_id]
           o2 == purchases[attempts[d].purchase_id]
       IN /\ o1.quantity = o2.quantity
          /\ o1.delivery_requested = o2.delivery_requested
          /\ o1.selected_items = o2.selected_items
          /\ o1.subtotal = o2.subtotal
          /\ o1.total_paid = o2.total_paid

(***************************************************************************)
(* Claims about payment reconciliation.                                    *)
(***************************************************************************)
Status(rows, i) == rows[i].payment_status

\* a step of stripe-webhook that answers 200 and has the effect of event
Delivered(event) ==
  /\ UNCHANGED <<gateway, response, sessions, now>>
  /\ webhook'.signature = "valid" /\ webhook'.status = 200
  /\ purchases' = webhookUpdate(purchases, event, now)

\* C5: over every sequence of gateway calls and webhook deliveries an order's
\* payment_status changes only along pending -> paid, pending -> failed and
\* paid -> refunded.
C5_AllowedTransitions ==
  [][\A i \in DOMAIN purchases :
       Status(purchases', i) # Status(purchases, i)
         => <<Status(purchases, i), Status(purchases', i)>>
              \in {<<"pending", "paid">>, <<"pending", "failed">>,
                   <<"paid", "refunded">>}]_vars

\* C6: once an order is paid, in every later state it is paid or refunded,
\* whatever the webhook deliveries and the concurrent gateway calls.
C6_PaidIsMonotonic ==
  [][\A i \in DOMAIN purchases :
       Status(purchases, i) = "paid"
         => Status(purchases', i) \in {"paid", "refunded"}]_vars

\* C7: an async_payment_failed or expired event leaves a paid order unchanged,
\* and it sets the status to failed only when the order is pending.
C7_FailedOnlyWhenPending ==
  [][\A event \in EmittedEvents :
       event.type \in {ASYNC_FAILED, EXPIRED} /\ Delivered(event)
         => LET i == event.purchase_id
            IN /\ Status(purchases, i) = "paid" => purchases'[i] = purchases[i]
               /\ Status(purchases', i) # Status(purchases, i)
                    => Status(purchases, i) = "pending"]_vars

\* the order shows the first delivery of the completed event
Applied(event) ==
  /\ event.type = COMPLETED
  /\ Status(purchases, event.purchase_id) = "paid"
  /\ purchases[event.purchase_id].stripe_checkout_session_id = event.session
  /\ purchases[event.purchase_id].stripe_payment_intent_id = event.payment_intent
  /\ purchases[event.purchase_id].paid_at # NONE

\* C8: a second delivery of the same checkout.session.completed event changes no
\* field of the order: it stays paid with the paid_at of the first delivery.
C8_DuplicateCompletedIsNoOp ==
  [][\A event \in EmittedEvents :
       Applied(event) /\ Delivered(event) => purchases' = purchases]_vars

\* C9: a charge.refunded event changes an order only if the order is paid and
\* its stored payment intent is the event's, and then to refunded.
C9_RefundOnlyPaidMatching ==
  [][\A event \in EmittedEvents :
       event.type = REFUNDED /\ Delivered(event)
         => \A i \in DOMAIN purchases :
              purchases'[i] # purchases[i]
                => /\ Status(purchases, i) = "paid"
                   /\ purchases[i].stripe_payment_intent_id = event.payment_intent
                   /\ Status(purchases', i) = "refunded"]_vars

\* a step of stripe-webhook: nothing else leaves the gateway, the sessions and
\* the clock alone
WebhookStep ==
  /\ UNCHANGED <<gateway, response, sessions, now>>
  /\ webhook' # webhook \/ purchases' # purchases

\* C10: a webhook request without a signature that verifies is answered 400 and
\* changes no order; an order changes only in a request whose signature has
\* verified.
C10_SignatureBeforeMutation ==
  [][WebhookStep
       => /\ webhook'.signature # "valid"
               => webhook'.status = 400 /\ purchases' = purchases
          /\ purchases' # purchases
               => webhook'.signature = "valid" /\ webhook'.status = 200]_vars

\* requests were refused for a missing and for an invalid signature while an
\* order was updated by a verified event
C10_Witness ==
  /\ webhook.signature \in {"missing", "invalid"}
  /\ webhook.status = 400
  /\ \E i \in DOMAIN purchases : purchases[i].paid_at # NONE

\* C11: an order becomes paid only in a step of the webhook whose signature
\* verified and that processes checkout.session.completed for that order; an
\* order is never created paid, and no step of the gateway marks one paid.
C11_PaidOnlyByVerifiedCompleted ==
  [][\A i \in DOMAIN purchases' :
       Status(purchases', i) = "paid"
         /\ (i \in DOMAIN purchases => Status(purchases, i) # "paid")
         => /\ i \in DOMAIN purchases
            /\ WebhookStep
            /\ webhook'.signature = "valid"
            /\ \E event \in EmittedEvents :
                 /\ event.type = COMPLETED /\ event.purchase_id = i
                 /\ Delivered(event)]_vars

\* an order was marked paid after the gateway answered with a session for it
C11_Witness ==
  /\ \E i \in DOMAIN purchases : Status(purchases, i) = "paid"
  /\ response.status = 200
  /\ webhook.signature = "valid"

\* request g has read a pending order that references a session which is open
Reusable(g) ==
  /\ gateway[g].pc = "read"
  /\ LET id == gateway[g].purchase.id
         sid == gateway[g].purchase.stripe_checkout_session_id
     IN /\ sid # NONE
        /\ sessions[sid].status = "open"
        /\ Status(purchases, id) = "pending"
        /\ purchases[id].stripe_checkout_session_id = sid

\* C12: a gateway call for a pending order that references an open session
\* creates no session, leaves the order unchanged, and what it answers with a
\* url is that session, reused = true.
C12_OpenSessionReused ==
  [][\A g \in Slots :
       Reusable(g) /\ gateway'[g] # gateway[g]
         => /\ Len(sessions') = Len(sessions)
            /\ purchases' = purchases
            /\ gateway'[g].pc = "idle" /\ response'.status = 200
                 => response' = respond(200, NULL, gateway[g].purchase.id,
                                        gateway[g].purchase.stripe_checkout_session_id,
                                        TRUE)]_vars

\* the open sessions the provider holds for order i
OpenSessions(i) ==
  {s \in DOMAIN sessions : sessions[s].purchase_id = i /\ sessions[s].status = "open"}

\* C13: in every reachable state each order has at most one open checkout
\* session, concurrent gateway requests for the order included.
C13_OneOpenSession ==
  \A i \in DOMAIN purchases : Cardinality(OpenSessions(i)) <= 1

\* C14: a gateway call that finds the order paid answers "already paid", one
\* that finds it refunded answers "refunded"; neither goes on to the provider,
\* creates a session or changes the order.
C14_PaidAndRefundedRefused ==
  [][/\ \A g \in Slots :
          gateway[g].pc = "idle" /\ gateway'[g].pc = "read"
            => Status(purchases, gateway'[g].purchase.id) \notin {"paid", "refunded"}
     /\ gateway' = gateway /\ response' # response
          => /\ response'.status = 400
             /\ response'.sessionId = NONE
             /\ \/ /\ Status(purchases, response'.purchaseId) = "paid"
                   /\ response'.error = "Purchase is already paid."
                \/ /\ Status(purchases, response'.purchaseId) = "refunded"
                   /\ response'.error = "Purchase has been refunded and cannot be repaid."
             /\ purchases' = purchases
             /\ sessions' = sessions]_vars

\* a call for a refunded order has been refused
C14_Witness ==
  \E i \in DOMAIN purchases :
    /\ Status(purchases, i) = "refunded"
    /\ response = respond(400, "Purchase has been refunded and cannot be repaid.",
                          i, NONE, FALSE)

\* C15: a session the gateway creates charges the order's stored total_paid
\* in cents, a positive amount; for an order whose amount is not positive the
\* call answers "Invalid purchase amount.", creates no session and leaves the
\* order unchanged.
C15_SessionAmount ==
  [][\A g \in Slots :
       gateway[g].pc = "read" /\ gateway'[g] # gateway[g]
         => LET i == gateway[g].purchase.id
            IN /\ Len(sessions') > Len(sessions)
                    => /\ sessions'[Len(sessions')].purchase_id = i
                       /\ sessions'[Len(sessions')].unit_amount = purchases[i].total_paid
                       /\ sessions'[Len(sessions')].unit_amount > 0
               /\ purchases[i].total_paid <= 0
                    => /\ response' = respond(400, "Invalid purchase amount.",
                                              i, NONE, FALSE)
                       /\ sessions' = sessions
                       /\ purchases' = purchases]_vars

\* a call for the order of a free drop has been refused for its amount
C15_Witness ==
  /\ response.status = 400
  /\ response.error = "Invalid purchase amount."
  /\ purchases[response.purchaseId].total_paid = 0
  /\ sessions = << >>

(***************************************************************************)
(* Claims about pricing and selections on the DropDetail page.             *)
(***************************************************************************)
\* how many picked options of the page carry this surcharge
Picked(price) ==
  Cardinality({t \in (1..2) \X (1..2) \X (1..3) :
                 /\ t[3] \in DOMAIN detail.selections[t[1]][t[2]]
                 /\ detail.selections[t[1]][t[2]][t[3]].additionalPrice = price})

\* section 4.1 for the page as it stands: base prices plus the surcharges of
\* what is picked, or the flat price
ExpectedUnitPrice ==
  IF detail.drop.menu_items = << >> THEN detail.drop.price
  ELSE detail.drop.menu_items[1].basePrice + detail.drop.menu_items[2].basePrice
       + 100 * Picked(100) + 200 * Picked(200) + 300 * Picked(300)

Shown ==
  orderTotal(detail.drop, detail.selections, detail.qty, detail.deliveryRequested,
             booking_fee_per_package)

\* C16: for every drop, selections, quantity, delivery flag, booking fee and
\* tax rate the page's pricing is unitPrice = base prices + picked surcharges
\* (the flat price without a menu), subtotal = unitPrice * quantity,
\* bookingFee = fee * quantity, deliveryFee = the drop's fee if requested,
\* taxAmount = (subtotal + deliveryFee + bookingFee) * taxRate, and total the
\* sum of the four.
C16_Pricing ==
  detail.drop # NoDrop =>
    /\ Shown.unitPrice = ExpectedUnitPrice
    /\ Shown.subtotal = ExpectedUnitPrice * detail.qty
    /\ Shown.bookingFee = booking_fee_per_package * detail.qty
    /\ Shown.deliveryFee =
         (IF detail.deliveryRequested THEN detail.drop.delivery_fee ELSE 0)
    /\ Shown.taxAmount * 100 =
         (Shown.subtotal + Shown.deliveryFee + Shown.bookingFee) * detail.drop.tax_rate
    /\ Shown.total =
         Shown.subtotal + Shown.deliveryFee + Shown.bookingFee + Shown.taxAmount

\* two packages with delivery, options picked in each group: 2 * $39.00 + $5.00
\* + $2.00, and 10% tax, $93.50
C16_Witness ==
  /\ detail.drop.menu_items # << >>
  /\ detail.qty = 2 /\ detail.deliveryRequested
  /\ detail.selections[1][1] = <<OptA>>
  /\ detail.selections[1][2] = <<OptB, OptC>>
  /\ detail.selections[2][1] = <<OptA, OptB>>
  /\ Shown.total = 9350

\* C17: the total the page shows for a drop, quantity, delivery flag and
\* selections equals the total savePurchase builds for the same inputs.
C17_ShownTotalIsReserved ==
  detail.drop # NoDrop /\ detail.submitted # NotSubmitted
    => detail.submitted.orderTotal = detail.submitted.p_total_paid

Incomplete ==
  {p \in Groups(detail.drop.menu_items) :
     /\ detail.drop.menu_items[p[1]].modifierGroups[p[2]].minSelect > 0
     /\ Len(detail.selections[p[1]][p[2]])
          < detail.drop.menu_items[p[1]].modifierGroups[p[2]].minSelect}

\* C19: the validation of "Buy" fails if and only if some group with
\* minSelect > 0 has fewer than minSelect options picked; the alert names the
\* first such group in item and group order, and nothing is submitted.
C19_IncompleteSelection ==
  [][handlePurchaseClick
       => /\ detail'.alert # NoAlert <=> Incomplete # {}
          /\ detail'.alert # NoAlert
               => /\ \E p \in Incomplete :
                       /\ detail'.alert = alertFor(detail.drop, p)
                       /\ \A q \in Incomplete :
                            p[1] < q[1] \/ (p[1] = q[1] /\ p[2] <= q[2])
                  /\ detail'.alert.minSelect > 0
                  /\ detail'.submitted = NotSubmitted
                  /\ ~detail'.isCheckoutOpen]_vars

\* the required choice of the first item is alerted while the group of the
\* second item is short too, and the optional group is empty
C19_Witness ==
  /\ detail.drop.menu_items # << >>
  /\ detail.alert = [item |-> "i1", group |-> "g1", minSelect |-> 1]
  /\ Len(detail.selections[2][1]) < 2
  /\ detail.selections[1][2] = << >>

MaxSelectOf(d, p) == d.menu_items[p[1]].modifierGroups[p[2]].maxSelect

\* C20: no toggleOption call takes a group above its maxSelect (a pick beyond
\* the cap leaves the group as it was), and no order is submitted with more
\* than maxSelect options in a group of the drop on the page.
C20_MaxSelect ==
  [][/\ ToggleOption
          => \A p \in Groups(detail.drop.menu_items) :
               \/ Len(detail'.selections[p[1]][p[2]]) <= MaxSelectOf(detail.drop, p)
               \/ detail'.selections[p[1]][p[2]] = detail.selections[p[1]][p[2]]
               \/ Len(detail'.selections[p[1]][p[2]]) < Len(detail.selections[p[1]][p[2]])
     /\ detail.submitted = NotSubmitted /\ detail'.submitted # NotSubmitted
          => \A p \in Groups(detail.drop.menu_items) :
               Len(detail'.submitted.selectedItems[p[1]].selectedModifiers[p[2]].options)
                 <= MaxSelectOf(detail.drop, p)]_vars

Unhandled ==
  {event \in ForeignEvents :
     \/ event.type \notin {COMPLETED, ASYNC_FAILED, EXPIRED, REFUNDED}
     \/ event.type \in {COMPLETED, ASYNC_FAILED, EXPIRED} /\ event.purchase_id = NONE
     \/ event.type = REFUNDED /\ event.payment_intent = NONE}

\* C24: a verified event of another type than completed, async_payment_failed,
\* expired and charge.refunded, or one of these four without purchase_id
\* (payment intent for the refund), is answered 200 { received: true } and
\* leaves every order unchanged.
C24_UnhandledEventsIgnored ==
  [][\A event \in Unhandled :
       stripeWebhookRequest("valid", event)
         => webhook'.status = 200 /\ purchases' = purchases]_vars

\* a verified request was answered 200 before the provider had any session of
\* the gateway to report on, and the order is as it was created
C24_Witness ==
  /\ webhook = [signature |-> "valid", status |-> 200, updateError |-> NULL]
  /\ sessions = << >>
  /\ Len(purchases) = 1
  /\ purchases[1].payment_status = "pending"
  /\ purchases[1].stripe_payment_intent_id = NONE

\* C25: the webhook answers 200 only if the update it attempted for the event
\* was persisted; when the update fails it answers an error, not a 2xx.
C25_SuccessOnlyIfPersisted ==
  [][WebhookStep /\ webhook'.signature = "valid"
       => /\ webhook'.status = 200 => webhook'.updateError = NULL
          /\ webhook'.updateError # NULL
               => webhook'.status >= 400 /\ purchases' = purchases]_vars

\* a step of create-checkout-session: a request moves on or is answered
GatewayStep == gateway' # gateway \/ response' # response

\* C26: once created an order is changed only by the gateway and by the
\* webhook; a step of the gateway changes nothing of it but
\* stripe_checkout_session_id, its payment_status in particular stays; and no
\* order is deleted.
C26_OnlyGatewayAndWebhook ==
  [][/\ Len(purchases') >= Len(purchases)
     /\ \A i \in DOMAIN purchases :
          purchases'[i] # purchases[i]
            => /\ GatewayStep \/ WebhookStep
               /\ GatewayStep
                    => purchases'[i] =
                         [purchases[i] EXCEPT !.stripe_checkout_session_id =
                            purchases'[i].stripe_checkout_session_id]]_vars

\* C27: no step changes the total_paid of an order that exists: not a gateway
\* call, and not a completed, failed, expired or refunded event or a replay of
\* one, before or after the order was paid.
C27_TotalPaidImmutable ==
  [][\A i \in DOMAIN purchases :
       /\ i \in DOMAIN purchases'
       /\ purchases'[i].total_paid = purchases[i].total_paid]_vars

\* the order was paid and then refunded, a session was made for it, and it
\* holds the $11.00 it was created with
C27_Witness ==
  /\ Len(purchases) = 1
  /\ purchases[1].payment_status = "refunded"
  /\ purchases[1].paid_at # NONE
  /\ purchases[1].stripe_checkout_session_id # NONE
  /\ purchases[1].total_paid = 1100

\* C29: a session the gateway creates carries as purchase_id the id of the
\* order the request was made for; when a gateway call answers 200 the order
\* of the call holds the session id it answers, a session of that order; and a
\* completed, failed or expired event of a session changes no other order than
\* the one the session was created for.
C29_SessionCorrelation ==
  [][/\ Len(sessions') > Len(sessions)
          => \E g \in Slots :
               /\ gateway[g].pc = "read" /\ gateway'[g].pc = "created"
               /\ gateway'[g].session = Len(sessions')
               /\ sessions'[Len(sessions')].purchase_id = gateway[g].purchase.id
     /\ \A g \in Slots :
          InService(g) /\ gateway'[g].pc = "idle" /\ response'.status = 200
            => /\ sessions'[response'.sessionId].purchase_id = response'.purchaseId
               /\ purchases'[response'.purchaseId].stripe_checkout_session_id
                    = response'.sessionId
     /\ \A event \in EmittedEvents :
          event.type \in {COMPLETED, ASYNC_FAILED, EXPIRED} /\ Delivered(event)
            => \A i \in DOMAIN purchases :
                 purchases'[i] # purchases[i] => i = sessions[event.session].purchase_id
    ]_vars

\* the attempts that have reserved and have not ended in an error
Holding == {c \in Clients : attempts[c].pc \in {"fetch", "checkout", "done"}}

\* C23: an attempt that ended with an error thrown to the form has left no
\* order and no decrement behind, so a retry from scratch makes one order and
\* one decrement: every order is the order of an attempt that has not failed,
\* one each, and remaining is the total minus what these orders hold.
C23_NoPartialCompletion ==
  /\ Len(purchases) = Cardinality(Holding)
  /\ drop.quantity_remaining = drop.total_quantity - SumQuantity(purchases)

(***************************************************************************)
(* Claims about the catalog.                                               *)
(***************************************************************************)
\* C22: in every reachable state the drop has 0 <= quantity_remaining <=
\* total_quantity, across its creation, its edits (which may change
\* total_quantity) and the reservations.
C22_RemainingWithinTotal ==
  drop # NoDrop =>
    /\ 0 <= drop.quantity_remaining
    /\ drop.quantity_remaining <= drop.total_quantity

\* C28: a drop created through addDrop starts pending whatever
\* approval_status its payload carries; updateDrop leaves approval_status as
\* it is; the approval_status of a drop changes only in
\* updateDropApprovalStatus (approve, reject).
C28_ApprovalOnlyByAdmin ==
  [][/\ drop = NoDrop /\ drop' # NoDrop => drop'.approval_status = PENDING
     /\ drop # NoDrop /\ adminDropFormSubmit
          => drop'.approval_status = drop.approval_status
     /\ drop # NoDrop /\ drop'.approval_status # drop.approval_status
          => handleApproveDrop \/ handleRejectDrop]_vars

\* a form opened while the drop was pending was saved after the approval, and
\* the drop is still approved
C28_Witness ==
  /\ drop # NoDrop /\ form # NoDrop
  /\ drop.approval_status = APPROVED
  /\ form.approval_status = PENDING
  /\ form.total_quantity = drop.total_quantity
  /\ drop.quantity_remaining > drop.total_quantity

====
